---------------------------- MODULE Spec2Model ----------------------------
(*  A model of the schema engine (schema_utils.py), the query compiler      *)
(*  (sql_generate_utils.py) and the pipeline driver (customer_analysis.py). *)
(*                                                                          *)
(*  Text is a sequence of one-character strings, so that trimming, padding  *)
(*  and quoting are computed character by character.  A cell of a dataset   *)
(*  is a record [k, s, n]: k = "na" (missing), "str" (text s) or "int"      *)
(*  (number n).  A dataset is column-major as in pandas: the set of column  *)
(*  labels, the number of rows, and per column its dtype and its cells.     *)
(*  Rows are numbered 1..n here; reported row labels are the 0-based        *)
(*  RangeIndex labels of pandas (row - 1).                                  *)
EXTENDS Integers, Sequences, FiniteSets, TLC

VARIABLES
    schema,     \* the schema document (fields in declaration order, primaryKey)
    raw,        \* the dataset handed to the entry point (never modified)
    df,         \* the dataset as the last call left it
    pc,         \* "raw" | "coerced" | "done"
    call,       \* the function called last
    outcome,    \* what the last schema call returned or raised
    arg,        \* the document handed to the query compiler
    scope,      \* the in_scope set handed to _build_expr
    sql,        \* what the query compiler returned or raised
    stages,     \* the stages of main() completed so far, in order
    exit,       \* exit status of main(): "running", "0" or "1"
    written,    \* whether main() has performed the output CSV write
    con,        \* the DuckDB connection of main(): "none", "open", "closed"
    out_schema  \* the output schema document of main()

schemaVars == <<schema, raw, df, outcome>>
sqlVars == <<arg, scope, sql>>
mainVars == <<stages, exit, written, con, out_schema>>
vars == <<schemaVars, sqlVars, mainVars, pc, call>>

----------------------------------------------------------------------------
(* Bounds of the model *)

MaxFields == 2
MaxRows == 2

(* Program constants *)

PadWidth == 7
ReportCap == 5
PKCap == 10

----------------------------------------------------------------------------
(* Text helpers *)

Min(a, b) == IF a < b THEN a ELSE b
Max(a, b) == IF a > b THEN a ELSE b

Digits == {"0", "1", "2", "3", "4", "5", "6", "7", "8", "9"}

DigitVal(c) ==
    CASE c = "0" -> 0 [] c = "1" -> 1 [] c = "2" -> 2 [] c = "3" -> 3
      [] c = "4" -> 4 [] c = "5" -> 5 [] c = "6" -> 6 [] c = "7" -> 7
      [] c = "8" -> 8 [] c = "9" -> 9

DigitChar(d) ==
    CASE d = 0 -> "0" [] d = 1 -> "1" [] d = 2 -> "2" [] d = 3 -> "3"
      [] d = 4 -> "4" [] d = 5 -> "5" [] d = 6 -> "6" [] d = 7 -> "7"
      [] d = 8 -> "8" [] d = 9 -> "9"

IsDigits(s) == Len(s) > 0 /\ \A i \in 1..Len(s) : s[i] \in Digits

RECURSIVE ParseNat(_)
ParseNat(s) ==
    IF s = <<>> THEN 0
    ELSE 10 * ParseNat(SubSeq(s, 1, Len(s) - 1)) + DigitVal(s[Len(s)])

RECURSIVE NatToStr(_)
NatToStr(n) ==
    IF n < 10 THEN <<DigitChar(n)>>
    ELSE NatToStr(n \div 10) \o <<DigitChar(n % 10)>>

(* str(int) of Python *)
IntToStr(n) == IF n < 0 THEN <<"-">> \o NatToStr(-n) ELSE NatToStr(n)

RECURSIVE Zeros(_)
Zeros(k) == IF k <= 0 THEN <<>> ELSE <<"0">> \o Zeros(k - 1)

RECURSIVE LStrip(_)
LStrip(s) == IF s = <<>> \/ s[1] # " " THEN s ELSE LStrip(Tail(s))

RECURSIVE RStrip(_)
RStrip(s) ==
    IF s = <<>> \/ s[Len(s)] # " " THEN s ELSE RStrip(SubSeq(s, 1, Len(s) - 1))

(* str.strip(): surrounding whitespace removed, inner whitespace kept *)
StrStrip(s) == RStrip(LStrip(s))

StrZfillRight(s, width) ==
    IF Len(s) >= width THEN s ELSE s \o Zeros(width - Len(s))

(* str.zfill(width), which pandas' Series.str.zfill applies to each       *)
(* element: zeros on the left up to width, placed after a leading sign.   *)
StrZfill(s, width) ==
    IF Len(s) >= width THEN s
    ELSE IF s # <<>> /\ s[1] \in {"+", "-"}
         THEN <<s[1]>> \o Zeros(width - Len(s)) \o Tail(s)
         ELSE Zeros(width - Len(s)) \o s

----------------------------------------------------------------------------
(* Cells and columns *)

NA == [k |-> "na", s |-> <<>>, n |-> 0]
StrCell(s) == [k |-> "str", s |-> s, n |-> 0]
IntCell(n) == [k |-> "int", s |-> <<>>, n |-> n]

IsNA(c) == c.k = "na"

(* pandas.api.types.is_string_dtype: true of "string", false of the      *)
(* nullable integer and of the categorical dtype                         *)
IsStringDtype(dt) == dt = "string"

IsNumericDtype(dt) == dt = "Int64"

StripCell(c) == IF c.k = "str" THEN StrCell(StrStrip(c.s)) ELSE c

(* .astype("string") of one element *)
AsStringCell(c) == IF c.k = "int" THEN StrCell(IntToStr(c.n)) ELSE c

ZfillCell(c) == IF c.k = "str" THEN StrCell(StrZfill(c.s, PadWidth)) ELSE c

(* pandas.to_numeric(errors="raise") of one element: a missing value and  *)
(* the empty string read as missing, an optionally signed run of digits   *)
(* as that integer, anything else cannot be parsed.                       *)
Parsable(c) ==
    \/ c.k \in {"na", "int"}
    \/ c.k = "str" /\ c.s = <<>>
    \/ c.k = "str" /\ IsDigits(c.s)
    \/ c.k = "str" /\ Len(c.s) > 1 /\ c.s[1] \in {"+", "-"} /\ IsDigits(Tail(c.s))

ToNumericCell(c) ==
    IF c.k # "str" THEN c
    ELSE IF c.s = <<>> THEN NA
    ELSE IF c.s[1] = "-" THEN IntCell(-ParseNat(Tail(c.s)))
    ELSE IF c.s[1] = "+" THEN IntCell(ParseNat(Tail(c.s)))
    ELSE IntCell(ParseNat(c.s))

SeqToSet(q) == {q[i] : i \in 1..Len(q)}

(* pandas.Categorical(values, categories=enum): a value outside the       *)
(* categories becomes missing                                             *)
CategoricalCell(c, enum) ==
    IF c.k = "str" /\ c.s \in SeqToSet(enum) THEN c ELSE NA

----------------------------------------------------------------------------
(* Schema documents.  An absent optional key of a field is has = FALSE.    *)

None == [has |-> FALSE, v |-> 0]
Some(x) == [has |-> TRUE, v |-> x]
NoEnum == [has |-> FALSE, v |-> <<>>]
Enum(q) == [has |-> TRUE, v |-> q]

Field(name, type, ptype, logical, required, nullable, pattern, enum, minv, maxv) ==
    [name |-> name, type |-> type, pandasType |-> ptype, logicalType |-> logical,
     required |-> required, nullable |-> nullable, pattern |-> pattern,
     enum |-> enum, min |-> minv, max |-> maxv]

FieldNames(sch) == {sch.fields[i].name : i \in 1..Len(sch.fields)}

----------------------------------------------------------------------------
(* Datasets *)

NoDf == [cols |-> {}, n |-> 0, dtype |-> <<>>, data |-> <<>>]

(* df[name] = column, with its dtype *)
SetColumn(d, name, dt, col) ==
    [d EXCEPT !.dtype[name] = dt, !.data[name] = col]

(* pandas.read_csv(usecols=..., dtype="string"): the named columns only *)
SelectColumns(d, names) ==
    [cols |-> names, n |-> d.n,
     dtype |-> [c \in names |-> "string"],
     data |-> [c \in names |-> d.data[c]]]

----------------------------------------------------------------------------
(* Errors.  A message is kept as its parts: the exception type, the head   *)
(* of the message, the head of a wrapped message, and one entry per line.  *)

CoerceHead == "Type coercion failed"
ValidateHead == "Schema validation failed"
ReadHead == "required column missing or CSV reading error"
WrapCoerceHead == "Type coercion failed when applying schema"
WrapValidateHead == "Schema validation failed for"
UnexpectedCoerceHead == "Unexpected error during type coercion for schema"
UnexpectedValidateHead == "Unexpected error during validation for schema"
PandasTypeCause == "[schema] pandasType required for integer field"
ParseCause == "Unable to parse string"

Entry(check, field, cause, rows, values) ==
    [check |-> check, field |-> field, cause |-> cause, rows |-> rows,
     values |-> values, cols |-> <<>>, keys |-> <<>>]

Returned(d) ==
    [kind |-> "ok", head |-> "", inner |-> "", entries |-> <<>>, df |-> d]

Raised(kind, head, inner, entries) ==
    [kind |-> kind, head |-> head, inner |-> inner, entries |-> entries, df |-> NoDf]

NoCall == [kind |-> "none", head |-> "", inner |-> "", entries |-> <<>>, df |-> NoDf]

----------------------------------------------------------------------------
(* _coerce_types *)

StripCol(col) == [i \in 1..Len(col) |-> StripCell(col[i])]
ZfillCol(col) == [i \in 1..Len(col) |-> ZfillCell(AsStringCell(col[i]))]
AsStringCol(col) == [i \in 1..Len(col) |-> AsStringCell(col[i])]
ToNumericCol(col) == [i \in 1..Len(col) |-> ToNumericCell(col[i])]
CategoricalCol(col, enum) == [i \in 1..Len(col) |-> CategoricalCell(col[i], enum)]
AllParsable(col) == \A i \in 1..Len(col) : Parsable(col[i])

(* The steps of the try block for one field present in the dataset.  The  *)
(* block ends as [ok, cause, df], df being the dataset as it left it.     *)
StripStep(d, name) ==
    IF IsStringDtype(d.dtype[name])
    THEN SetColumn(d, name, d.dtype[name], StripCol(d.data[name]))
    ELSE d

PadStep(d, field) ==
    IF field.logicalType = "zeroPad7"
    THEN SetColumn(d, field.name, "string", ZfillCol(d.data[field.name]))
    ELSE d

ConvertStep(d, field) ==
    IF field.type = "integer" THEN
        IF field.pandasType = "none"
        THEN [ok |-> FALSE, cause |-> PandasTypeCause, df |-> d]
        ELSE IF ~AllParsable(d.data[field.name])
        THEN [ok |-> FALSE, cause |-> ParseCause, df |-> d]
        ELSE [ok |-> TRUE, cause |-> "",
              df |-> SetColumn(d, field.name, field.pandasType,
                               ToNumericCol(d.data[field.name]))]
    ELSE IF field.type = "number" THEN
        IF ~AllParsable(d.data[field.name])
        THEN [ok |-> FALSE, cause |-> ParseCause, df |-> d]
        ELSE [ok |-> TRUE, cause |-> "",
              df |-> SetColumn(d, field.name, "Int64", ToNumericCol(d.data[field.name]))]
    ELSE IF field.type = "string" THEN
        [ok |-> TRUE, cause |-> "",
         df |-> SetColumn(d, field.name, "string", AsStringCol(d.data[field.name]))]
    ELSE [ok |-> TRUE, cause |-> "", df |-> d]

EnumStep(conv, field) ==
    IF conv.ok /\ field.enum.has /\ field.type = "string"
    THEN [conv EXCEPT !.df = SetColumn(conv.df, field.name, "category",
                              CategoricalCol(conv.df.data[field.name], field.enum.v))]
    ELSE conv

CoerceField(d, field) ==
    EnumStep(ConvertStep(PadStep(StripStep(d, field.name), field), field), field)

(* except Exception as e: errors.append(...) *)
Collect(acc, name, r) ==
    [df |-> r.df,
     errors |-> IF r.ok THEN acc.errors
                ELSE Append(acc.errors, Entry("coerce", name, r.cause, <<>>, <<>>))]

(* One iteration of the loop: a field absent from the dataset is skipped *)
CoerceStep(acc, field) ==
    IF field.name \notin acc.df.cols THEN acc
    ELSE Collect(acc, field.name, CoerceField(acc.df, field))

RECURSIVE CoerceLoopFailFast(_, _, _)
CoerceLoopFailFast(fields, i, acc) ==
    IF i > Len(fields) \/ acc.errors # <<>> THEN acc
    ELSE CoerceLoopFailFast(fields, i + 1, CoerceStep(acc, fields[i]))

(* The loop over schema["fields"] from field i on; acc = [df, errors].    *)
(* A failing field adds its entry and the loop goes on.                    *)
RECURSIVE CoerceLoop(_, _, _)
CoerceLoop(fields, i, acc) ==
    IF i > Len(fields) THEN acc
    ELSE CoerceLoop(fields, i + 1, CoerceStep(acc, fields[i]))

(* if errors: raise ValueError(...); return df *)
CoerceEnd(acc) ==
    IF acc.errors # <<>>
    THEN Raised("ValueError", CoerceHead, "", acc.errors)
    ELSE Returned(acc.df)

coerce_types(d, sch) ==
    CoerceEnd(CoerceLoop(sch.fields, 1, [df |-> d, errors |-> <<>>]))

----------------------------------------------------------------------------
(* _validate *)

FirstN(q, k) == SubSeq(q, 1, Min(k, Len(q)))

RECURSIVE RowsWhere(_, _, _)
(* The rows i..n of which bad[i] holds, in row order *)
RowsWhere(bad, i, n) ==
    IF i > n THEN <<>>
    ELSE IF bad[i] THEN <<i>> \o RowsWhere(bad, i + 1, n)
    ELSE RowsWhere(bad, i + 1, n)

Labels(rows) == [j \in 1..Len(rows) |-> rows[j] - 1]
Values(col, rows) == [j \in 1..Len(rows) |-> col[rows[j]]]

(* One report line: the first cap offending rows and their values *)
Report(check, name, col, bad, cap) ==
    LET rows == FirstN(RowsWhere(bad, 1, Len(col)), cap)
    IN  Entry(check, name, "", Labels(rows), Values(col, rows))

(* Series.str.match of the pattern after fillna(""); the patterns of the  *)
(* model are "" (none) and "^[0-9]+$"                                     *)
PatternDigits == "^[0-9]+$"
Matches(c, pattern) == c.k = "str" /\ IsDigits(c.s)

InEnum(c, enum) == c.k = "str" /\ c.s \in SeqToSet(enum)

(* The checks of one field whose column is in the dataset, in order *)
FieldChecks(d, field) ==
    LET name == field.name
        s == d.data[name]
        n == Len(s)
        isNull == [i \in 1..n |-> IsNA(s[i])]
        noMatch == [i \in 1..n |-> ~Matches(s[i], field.pattern)]
        notIn == [i \in 1..n |-> ~InEnum(s[i], field.enum.v) /\ ~IsNA(s[i])]
        below == [i \in 1..n |-> s[i].k = "int" /\ s[i].n < field.min.v]
        above == [i \in 1..n |-> s[i].k = "int" /\ s[i].n > field.max.v]
        any(bad) == \E i \in 1..n : bad[i]
        numeric == IsNumericDtype(d.dtype[name])
    IN  (IF ~field.nullable /\ any(isNull)
         THEN <<Entry("null", name, "", Labels(FirstN(RowsWhere(isNull, 1, n), ReportCap)), <<>>)>>
         ELSE <<>>)
        \o (IF field.pattern # "" /\ IsStringDtype(d.dtype[name]) /\ any(noMatch)
            THEN <<Report("pattern", name, s, noMatch, ReportCap)>> ELSE <<>>)
        \o (IF field.enum.has /\ any(notIn)
            THEN <<Report("enum", name, s, notIn, ReportCap)>> ELSE <<>>)
        \o (IF numeric /\ field.min.has /\ any(below)
            THEN <<Report("range", name, s, below, ReportCap)>> ELSE <<>>)
        \o (IF numeric /\ field.max.has /\ any(above)
            THEN <<Report("range", name, s, above, ReportCap)>> ELSE <<>>)

(* One iteration of the loop; acc = [crash, errors].  A required field    *)
(* absent from the dataset adds its entry and is skipped; df[name] of any  *)
(* other absent field raises KeyError out of the loop.                     *)
ValidateStep(acc, d, field) ==
    IF field.required /\ field.name \notin d.cols
    THEN [acc EXCEPT !.errors = Append(@, Entry("schema", field.name, "", <<>>, <<>>))]
    ELSE IF field.name \notin d.cols
    THEN [acc EXCEPT !.crash = field.name]
    ELSE [acc EXCEPT !.errors = @ \o FieldChecks(d, field)]

ValidateStepSkipAbsent(acc, d, field) ==
    IF field.required /\ field.name \notin d.cols
    THEN [acc EXCEPT !.errors = Append(@, Entry("schema", field.name, "", <<>>, <<>>))]
    ELSE IF field.name \notin d.cols
    THEN acc
    ELSE [acc EXCEPT !.errors = @ \o FieldChecks(d, field)]

RECURSIVE ValidateLoopSkipAbsent(_, _, _, _)
ValidateLoopSkipAbsent(fields, i, d, acc) ==
    IF i > Len(fields) THEN acc
    ELSE ValidateLoopSkipAbsent(fields, i + 1, d, ValidateStepSkipAbsent(acc, d, fields[i]))

(* The loop over schema["fields"] from field i on *)
RECURSIVE ValidateLoop(_, _, _, _)
ValidateLoop(fields, i, d, acc) ==
    IF i > Len(fields) \/ acc.crash # "" THEN acc
    ELSE ValidateLoop(fields, i + 1, d, ValidateStep(acc, d, fields[i]))

KeyOf(d, pk, i) == [c \in SeqToSet(pk) |-> d.data[c][i]]

(* df.duplicated(subset=pk, keep=False): the row shares its key with      *)
(* another row (missing values compare equal)                              *)
Duplicated(d, pk) ==
    [i \in 1..d.n |-> \E j \in 1..d.n : j # i /\ KeyOf(d, pk, j) = KeyOf(d, pk, i)]

RECURSIVE FirstMissing(_, _, _)
FirstMissing(pk, i, cols) ==
    IF i > Len(pk) THEN ""
    ELSE IF pk[i] \notin cols THEN pk[i] ELSE FirstMissing(pk, i + 1, cols)

PrimaryKeyEntry(d, pk, ix) ==
    [check |-> "primaryKey", field |-> "", cause |-> "",
     rows |-> Labels(ix), values |-> <<>>, cols |-> pk,
     keys |-> [j \in 1..Len(ix) |-> KeyOf(d, pk, ix[j])]]

(* The primary-key check after the loop; a key column absent from the      *)
(* dataset raises KeyError                                                 *)
PrimaryKeyCheck(d, pk, acc) ==
    IF acc.crash # "" \/ pk = <<>> THEN acc
    ELSE IF ~(SeqToSet(pk) \subseteq d.cols)
    THEN [acc EXCEPT !.crash = FirstMissing(pk, 1, d.cols)]
    ELSE IF \E i \in 1..d.n : Duplicated(d, pk)[i]
    THEN [acc EXCEPT !.errors =
              Append(@, PrimaryKeyEntry(d, pk,
                            FirstN(RowsWhere(Duplicated(d, pk), 1, d.n), PKCap)))]
    ELSE acc

(* if errors: raise ValueError(...) *)
ValidateEnd(acc) ==
    IF acc.crash # "" THEN Raised("KeyError", acc.crash, "", <<>>)
    ELSE IF acc.errors # <<>> THEN Raised("ValueError", ValidateHead, "", acc.errors)
    ELSE Returned(NoDf)

validate(d, sch) ==
    ValidateEnd(PrimaryKeyCheck(d, sch.primaryKey,
                    ValidateLoop(sch.fields, 1, d, [crash |-> "", errors |-> <<>>])))

----------------------------------------------------------------------------
(* The entry points of schema_utils.  The schema file is taken to be       *)
(* present and well formed (load_schema returns the document).             *)

RECURSIVE MissingEntries(_, _, _)
(* The columns pandas.read_csv names as expected but not found *)
MissingEntries(fields, i, cols) ==
    IF i > Len(fields) THEN <<>>
    ELSE (IF fields[i].name \notin cols
          THEN <<Entry("usecols", fields[i].name, "", <<>>, <<>>)>> ELSE <<>>)
         \o MissingEntries(fields, i + 1, cols)

(* _validate(df, schema); return df *)
ValidateAndReturn(v, d) == IF v.kind # "ok" THEN v ELSE Returned(d)

(* df = _coerce_types(df, schema), then the above *)
ThenValidate(c, sch) ==
    IF c.kind # "ok" THEN c ELSE ValidateAndReturn(validate(c.df, sch), c.df)

read_with_schema(csv, sch) ==
    IF ~(FieldNames(sch) \subseteq csv.cols)
    THEN Raised("ValueError", ReadHead, "", MissingEntries(sch.fields, 1, csv.cols))
    ELSE ThenValidate(coerce_types(SelectColumns(csv, FieldNames(sch)), sch), sch)

apply_schema(d, sch) == coerce_types(d, sch)

(* The second try block of apply_schema_from_path *)
WrapValidate(v, d) ==
    IF v.kind = "ValueError"
    THEN Raised("ValueError", WrapValidateHead, v.head, v.entries)
    ELSE IF v.kind # "ok"
    THEN Raised("RuntimeError", UnexpectedValidateHead, v.head, v.entries)
    ELSE Returned(d)

(* The first try block of apply_schema_from_path, then the second *)
WrapCoerce(c, sch) ==
    IF c.kind = "ValueError"
    THEN Raised("ValueError", WrapCoerceHead, c.head, c.entries)
    ELSE IF c.kind # "ok"
    THEN Raised("RuntimeError", UnexpectedCoerceHead, c.head, c.entries)
    ELSE WrapValidate(validate(c.df, sch), c.df)

apply_schema_from_path(d, sch) == WrapCoerce(coerce_types(d, sch), sch)

----------------------------------------------------------------------------
(* Inputs: schemas of up to MaxFields fields with distinct names drawn     *)
(* from FieldPool, and datasets of up to MaxRows rows whose columns are    *)
(* schema fields read as text.                                             *)

T7 == <<"7">>
T12 == <<" ", "1", "2">>
TA == <<"A">>

RawCells == {NA, StrCell(T7), StrCell(T12), StrCell(TA)}

FieldPool ==
    { Field("a", "string", "none", "zeroPad7", TRUE, TRUE, "", NoEnum, None, None),
      Field("a", "string", "none", "none", FALSE, FALSE, PatternDigits, NoEnum, None, None),
      Field("a", "integer", "Int64", "none", TRUE, TRUE, "", NoEnum, None, None),
      Field("b", "integer", "Int64", "none", TRUE, FALSE, "", NoEnum, Some(8), Some(10)),
      Field("b", "integer", "none", "none", FALSE, TRUE, "", NoEnum, None, None),
      Field("b", "number", "none", "none", FALSE, TRUE, "", NoEnum, None, Some(10)),
      Field("c", "string", "none", "none", FALSE, TRUE, "", Enum(<<T7>>), None, None),
      Field("c", "string", "none", "none", TRUE, FALSE, "", Enum(<<T7>>), None, None) }

DistinctNames(fs) ==
    \A i, j \in 1..Len(fs) : i # j => fs[i].name # fs[j].name

FieldSeqs ==
    {fs \in UNION {[1..k -> FieldPool] : k \in 1..MaxFields} : DistinctNames(fs)}

Schemas ==
    UNION { {[fields |-> fs, primaryKey |-> pk] : pk \in {<<>>, <<fs[1].name>>}}
            : fs \in FieldSeqs }

RawDatasets(names) ==
    UNION { UNION { { [cols |-> cs, n |-> n,
                       dtype |-> [c \in cs |-> "string"],
                       data |-> d] : d \in [cs -> [1..n -> RawCells]] }
                    : n \in 1..MaxRows }
            : cs \in SUBSET names }

----------------------------------------------------------------------------
(* The state machine: one call of a function of schema_utils on the input  *)

NoSchema == [fields |-> <<>>, primaryKey |-> <<>>]

NoSql == [ok |-> FALSE, err |-> "not called", sql |-> <<>>]

CompilerIdle ==
    /\ arg = None
    /\ scope = {}
    /\ sql = NoSql

DriverIdle ==
    /\ stages = <<>>
    /\ exit = "running"
    /\ written = FALSE
    /\ con = "none"
    /\ out_schema = NoSchema

Init ==
    /\ schema \in Schemas
    /\ raw \in RawDatasets(FieldNames(schema))
    /\ df = raw
    /\ pc = "raw"
    /\ call = "none"
    /\ outcome = NoCall
    /\ CompilerIdle
    /\ DriverIdle

CallCoerceTypes ==
    /\ pc = "raw"
    /\ outcome' = coerce_types(df, schema)
    /\ call' = "_coerce_types"
    /\ df' = IF outcome'.kind = "ok" THEN outcome'.df ELSE df
    /\ pc' = IF outcome'.kind = "ok" THEN "coerced" ELSE "done"
    /\ UNCHANGED <<schema, raw, sqlVars, mainVars>>

CallValidate ==
    /\ pc = "coerced"
    /\ outcome' = validate(df, schema)
    /\ call' = "_validate"
    /\ pc' = "done"
    /\ UNCHANGED <<schema, raw, df, sqlVars, mainVars>>

ReadWithSchema ==
    /\ pc = "raw"
    /\ outcome' = read_with_schema(raw, schema)
    /\ call' = "read_with_schema"
    /\ df' = IF outcome'.kind = "ok" THEN outcome'.df ELSE df
    /\ pc' = "done"
    /\ UNCHANGED <<schema, raw, sqlVars, mainVars>>

ApplySchema ==
    /\ pc = "raw"
    /\ outcome' = apply_schema(raw, schema)
    /\ call' = "apply_schema"
    /\ df' = IF outcome'.kind = "ok" THEN outcome'.df ELSE df
    /\ pc' = "done"
    /\ UNCHANGED <<schema, raw, sqlVars, mainVars>>

ApplySchemaFromPath ==
    /\ pc = "raw"
    /\ outcome' = apply_schema_from_path(raw, schema)
    /\ call' = "apply_schema_from_path"
    /\ df' = IF outcome'.kind = "ok" THEN outcome'.df ELSE df
    /\ pc' = "done"
    /\ UNCHANGED <<schema, raw, sqlVars, mainVars>>

Next ==
    \/ CallCoerceTypes
    \/ CallValidate
    \/ ReadWithSchema
    \/ ApplySchema
    \/ ApplySchemaFromPath

Spec == Init /\ [][Next]_vars

----------------------------------------------------------------------------
(* Zero padding alone: one zeroPad7 text field, one cell holding any text  *)
(* of up to MaxPadLen characters over PadChars.                            *)

MaxPadLen == 8
PadChars == {"1", " ", "-", "+"}

PadTexts == UNION {[1..k -> PadChars] : k \in 0..MaxPadLen}

PadSchema ==
    [fields |-> <<Field("a", "string", "none", "zeroPad7", TRUE, TRUE, "",
                        NoEnum, None, None)>>,
     primaryKey |-> <<>>]

InitPad ==
    /\ schema = PadSchema
    /\ raw \in { [cols |-> {"a"}, n |-> 1, dtype |-> [c \in {"a"} |-> "string"],
                  data |-> [c \in {"a"} |-> <<x>>]]
                 : x \in {NA} \cup {StrCell(s) : s \in PadTexts} }
    /\ df = raw
    /\ pc = "raw"
    /\ call = "none"
    /\ outcome = NoCall
    /\ CompilerIdle
    /\ DriverIdle

NextPad == CallCoerceTypes \/ ReadWithSchema

SpecPad == InitPad /\ [][NextPad]_vars

----------------------------------------------------------------------------
(* Claims about the schema engine *)

Present(i) == schema.fields[i].name \in raw.cols

(* Field i, taken alone on the input, cannot be converted *)
FailsAlone(i) == Present(i) /\ ~CoerceField(raw, schema.fields[i]).ok

RECURSIVE FailingFrom(_)
(* The fields i.. that fail, in declaration order, each with its cause *)
FailingFrom(i) ==
    IF i > Len(schema.fields) THEN <<>>
    ELSE (IF FailsAlone(i)
          THEN <<[field |-> schema.fields[i].name,
                  cause |-> CoerceField(raw, schema.fields[i]).cause]>>
          ELSE <<>>) \o FailingFrom(i + 1)

(* C1: _coerce_types is not fail-fast.  It raises one 'Type coercion      *)
(* failed' error holding exactly one '<field>: <cause>' entry per failing  *)
(* field present in the dataset, in declaration order, however many fail;  *)
(* when no field fails it returns the dataset, every present field         *)
(* converted and every other column as it was.                             *)
C1_CoerceAggregatesEveryFailure ==
    call = "_coerce_types" =>
        LET failing == FailingFrom(1)
        IN  IF failing = <<>>
            THEN /\ outcome.kind = "ok"
                 /\ outcome.df.cols = raw.cols
                 /\ \A i \in 1..Len(schema.fields) :
                        Present(i) =>
                            outcome.df.data[schema.fields[i].name]
                                = CoerceField(raw, schema.fields[i]).df.data[schema.fields[i].name]
            ELSE /\ outcome.kind = "ValueError"
                 /\ outcome.head = CoerceHead
                 /\ Len(outcome.entries) = Len(failing)
                 /\ \A j \in 1..Len(failing) :
                        /\ outcome.entries[j].check = "coerce"
                        /\ outcome.entries[j].field = failing[j].field
                        /\ outcome.entries[j].cause = failing[j].cause

(* C1 witness: a call in which two fields fail and both are reported *)
C1_TwoFieldsFail ==
    /\ call = "_coerce_types"
    /\ Len(schema.fields) >= 2
    /\ FailsAlone(1) /\ FailsAlone(2)
    /\ Len(outcome.entries) = 2

(* What the checks of _validate find when a field absent from the dataset  *)
(* is passed over, as _coerce_types passes over it                         *)
ClaimedViolations ==
    LET r == ValidateLoopSkipAbsent(schema.fields, 1, df, [crash |-> "", errors |-> <<>>])
    IN  IF SeqToSet(schema.primaryKey) \subseteq df.cols
        THEN PrimaryKeyCheck(df, schema.primaryKey, r).errors
        ELSE r.errors

(* C2: _validate, on any coerced dataset (a field that is not required    *)
(* may be absent from it), either returns normally, no check being         *)
(* violated, or raises the one 'Schema validation failed' error holding    *)
(* an entry per violated check; it ends in no other kind of error.         *)
C2_ValidateOnlyAggregates ==
    call = "_validate" =>
        \/ outcome.kind = "ok" /\ ClaimedViolations = <<>>
        \/ /\ outcome.kind = "ValueError"
           /\ outcome.head = ValidateHead
           /\ outcome.entries = ClaimedViolations
           /\ outcome.entries # <<>>

(* Field i is a text field with an enum, and the input holds in its       *)
(* column a value that, trimmed, is not one of the enum values             *)
OutsideEnum(i) ==
    LET f == schema.fields[i]
    IN  /\ f.type = "string" /\ f.enum.has /\ f.logicalType = "none"
        /\ Present(i)
        /\ \E r \in 1..raw.n :
               /\ raw.data[f.name][r].k = "str"
               /\ StrStrip(raw.data[f.name][r].s) \notin SeqToSet(f.enum.v)

EnumReported(name) ==
    /\ outcome.kind = "ValueError"
    /\ outcome.head = ValidateHead
    /\ \E j \in 1..Len(outcome.entries) :
           outcome.entries[j].check = "enum" /\ outcome.entries[j].field = name

(* C3: a value outside the enum of a text field passes coercion and is    *)
(* then rejected by _validate with an enum violation for that field.       *)
(* Stated for datasets that hold every field of the schema, so that        *)
(* _validate runs all its checks.                                          *)
C3_OutsideEnumRejected ==
    (call = "_validate" /\ FieldNames(schema) \subseteq raw.cols) =>
        \A i \in 1..Len(schema.fields) :
            OutsideEnum(i) => EnumReported(schema.fields[i].name)

MissingRequired ==
    {schema.fields[i].name : i \in {k \in 1..Len(schema.fields) :
                                       schema.fields[k].required /\ ~Present(k)}}

EntryPoints == {"read_with_schema", "apply_schema", "apply_schema_from_path"}

(* C7: applying a schema to a dataset that lacks a required field never   *)
(* succeeds, whichever entry point applies it.                             *)
C7_MissingRequiredNeverSucceeds ==
    (call \in EntryPoints /\ MissingRequired # {}) => outcome.kind # "ok"

(* Rows r and q of the validated dataset agree on every key column *)
Agree(pk, r, q) ==
    /\ SeqToSet(pk) \subseteq df.cols
    /\ \A c \in SeqToSet(pk) : df.data[c][r] = df.data[c][q]

DuplicatedRows(pk) ==
    RowsWhere([r \in 1..df.n |-> \E q \in 1..df.n : q # r /\ Agree(pk, r, q)], 1, df.n)

(* C8: with a primary key declared, _validate reports a 'primaryKey'      *)
(* violation exactly when two rows agree on all key columns, and the       *)
(* report lists the first min(10, k) of the k duplicated rows in row       *)
(* order, each with its key values.                                        *)
C8_PrimaryKeyReported ==
    (call = "_validate" /\ schema.primaryKey # <<>>) =>
        LET pk == schema.primaryKey
            dups == DuplicatedRows(pk)
            shown == SubSeq(dups, 1, Min(10, Len(dups)))
            reports == {j \in 1..Len(outcome.entries) :
                            outcome.entries[j].check = "primaryKey"}
        IN  /\ (reports # {}) <=> (dups # <<>>)
            /\ \A j \in reports :
                   /\ outcome.entries[j].rows = [m \in 1..Len(shown) |-> shown[m] - 1]
                   /\ outcome.entries[j].keys
                        = [m \in 1..Len(shown) |->
                               [c \in SeqToSet(pk) |-> df.data[c][shown[m]]]]

(* The cell the zeroPad7 field of row r was given, trimmed, and the cell   *)
(* _coerce_types returned for it                                           *)
PaddedCase(i, r) ==
    /\ call = "_coerce_types" /\ outcome.kind = "ok"
    /\ schema.fields[i].logicalType = "zeroPad7"
    /\ schema.fields[i].type = "string" /\ ~schema.fields[i].enum.has
    /\ Present(i)
    /\ raw.data[schema.fields[i].name][r].k = "str"

PadIn(i, r) == StrStrip(raw.data[schema.fields[i].name][r].s)
PadOut(i, r) == outcome.df.data[schema.fields[i].name][r].s

Signed(t) == t # <<>> /\ t[1] \in {"+", "-"}

ZeroThenText(y, t) ==
    /\ Len(y) >= Len(t)
    /\ SubSeq(y, Len(y) - Len(t) + 1, Len(y)) = t
    /\ \A j \in 1..(Len(y) - Len(t)) : y[j] = "0"

----------------------------------------------------------------------------
(* The query compiler (sql_generate_utils.py).                             *)
(*                                                                         *)
(* SQL text is a sequence of pieces: names, operators, function names and  *)
(* string values contribute their characters one by one, keywords and      *)
(* layout are whole pieces.  A JSON value is a record [t, ...]: null,      *)
(* number, string or list.  A JSON object is a record holding exactly the  *)
(* keys the object has; a bare JSON string in the place of an expression   *)
(* is [pystr |-> its characters].                                          *)

LowerCase == <<"a", "b", "c", "d", "e", "f", "g", "h", "i", "j", "k", "l", "m",
               "n", "o", "p", "q", "r", "s", "t", "u", "v", "w", "x", "y", "z">>
UpperCase == <<"A", "B", "C", "D", "E", "F", "G", "H", "I", "J", "K", "L", "M",
               "N", "O", "P", "Q", "R", "S", "T", "U", "V", "W", "X", "Y", "Z">>

UpperChar(c) ==
    IF \E i \in 1..26 : LowerCase[i] = c
    THEN UpperCase[CHOOSE i \in 1..26 : LowerCase[i] = c]
    ELSE c

(* str.upper() *)
StrUpper(s) == [i \in 1..Len(s) |-> UpperChar(s[i])]

W_SUM == <<"S", "U", "M">>
W_COUNT == <<"C", "O", "U", "N", "T">>
W_AVG == <<"A", "V", "G">>
W_MIN == <<"M", "I", "N">>
W_MAX == <<"M", "A", "X">>
W_COALESCE == <<"C", "O", "A", "L", "E", "S", "C", "E">>
W_ABS == <<"A", "B", "S">>
W_ROUND == <<"R", "O", "U", "N", "D">>
W_FLOOR == <<"F", "L", "O", "O", "R">>
W_CEIL == <<"C", "E", "I", "L">>
W_NULLIF == <<"N", "U", "L", "L", "I", "F">>

W_EQ == <<"=">>
W_NE == <<"!", "=">>
W_LT == <<"<">>
W_GT == <<">">>
W_LE == <<"<", "=">>
W_GE == <<">", "=">>
W_IN == <<"I", "N">>
W_NOT_IN == <<"N", "O", "T", " ", "I", "N">>
W_LIKE == <<"L", "I", "K", "E">>
W_BETWEEN == <<"B", "E", "T", "W", "E", "E", "N">>
W_IS_NULL == <<"I", "S", " ", "N", "U", "L", "L">>
W_IS_NOT_NULL == <<"I", "S", " ", "N", "O", "T", " ", "N", "U", "L", "L">>

ALLOWED_AGG_FUNCS == {W_SUM, W_COUNT, W_AVG, W_MIN, W_MAX}
ALLOWED_SCALAR_FUNCS == {W_COALESCE, W_ABS, W_ROUND, W_FLOOR, W_CEIL, W_NULLIF}
ALLOWED_FUNCS_Open ==
    ALLOWED_AGG_FUNCS \cup ALLOWED_SCALAR_FUNCS \cup {<<"E", "X", "E", "C">>}

ALLOWED_FUNCS == ALLOWED_AGG_FUNCS \cup ALLOWED_SCALAR_FUNCS

ALLOWED_OPS ==
    {W_EQ, W_NE, W_LT, W_GT, W_LE, W_GE, W_IN, W_NOT_IN, W_LIKE, W_BETWEEN,
     W_IS_NULL, W_IS_NOT_NULL}

Null == [t |-> "null"]
Num(n) == [t |-> "num", n |-> n]
Str(s) == [t |-> "str", s |-> s]
List(q) == [t |-> "list", items |-> q]

(* dict.get(key, default) *)
GetOr(r, k, d) == IF k \in DOMAIN r THEN r[k] ELSE d

(* str.replace(q, q + q) *)
DoubledNot(s, q) == s

RECURSIVE Doubled(_, _)
Doubled(s, q) ==
    IF s = <<>> THEN <<>>
    ELSE (IF Head(s) = q THEN <<q, q>> ELSE <<Head(s)>>) \o Doubled(Tail(s), q)

q_ident(name) == <<"\"">> \o Doubled(name, "\"") \o <<"\"">>

(* _lit of null, a number or a string (the str() of a list is not modelled) *)
lit(val) ==
    CASE val.t = "null" -> <<"NULL">>
      [] val.t = "num" -> IntToStr(val.n)
      [] val.t = "str" -> <<"'">> \o Doubled(val.s, "'") \o <<"'">>

(* sep.join(parts) *)
RECURSIVE JoinParts(_, _)
JoinParts(parts, sep) ==
    IF parts = <<>> THEN <<>>
    ELSE IF Len(parts) = 1 THEN parts[1]
    ELSE parts[1] \o sep \o JoinParts(Tail(parts), sep)

LitList(items) == JoinParts([i \in 1..Len(items) |-> lit(items[i])], <<", ">>)

(* What a compiler function returns (ok, the text) or raises (err) *)
SqlOk(text) == [ok |-> TRUE, err |-> "", sql |-> text]
SqlErr(e) == [ok |-> FALSE, err |-> e, sql |-> <<>>]

(* A generator consumed by join: the parts so far, or the first error *)
AccOk(parts) == [ok |-> TRUE, err |-> "", parts |-> parts]
AccErr(e) == [ok |-> FALSE, err |-> e, parts |-> <<>>]

Prefixed(prefix, r) == IF r.ok THEN SqlOk(prefix \o r.sql) ELSE r

(* _build_condition: a comparison, after the all / any / not dispatch *)
Between(col, val) ==
    IF val.t = "list" THEN
        IF Len(val.items) = 2
        THEN SqlOk(col \o <<" BETWEEN ">> \o lit(val.items[1]) \o <<" AND ">>
                       \o lit(val.items[2]))
        ELSE SqlErr("ValueError")
    ELSE IF val.t = "str" THEN
        IF Len(val.s) = 2
        THEN SqlOk(col \o <<" BETWEEN ">> \o lit(Str(<<val.s[1]>>)) \o <<" AND ">>
                       \o lit(Str(<<val.s[2]>>)))
        ELSE SqlErr("ValueError")
    ELSE SqlErr("TypeError")

Comparison(col, op, val) ==
    IF op \in {W_IS_NULL, W_IS_NOT_NULL} THEN SqlOk(col \o <<" ">> \o op)
    ELSE IF op \in {W_IN, W_NOT_IN} THEN
        IF val.t # "list" THEN SqlErr("requires list value")
        ELSE SqlOk(col \o <<" ">> \o op \o <<" (">> \o LitList(val.items) \o <<")">>)
    ELSE IF op = W_BETWEEN THEN Between(col, val)
    ELSE SqlOk(col \o <<" ">> \o op \o <<" ">> \o lit(val))

Grouped(a, sep) ==
    IF a.ok THEN SqlOk(<<"(">> \o JoinParts(a.parts, sep) \o <<")">>)
    ELSE SqlErr(a.err)

Negated(r) == IF r.ok THEN SqlOk(<<"(NOT ">> \o r.sql \o <<")">>) ELSE r

RECURSIVE build_condition(_), BuildConds(_, _, _)

AfterCond(conds, i, parts, r) ==
    IF r.ok THEN BuildConds(conds, i + 1, Append(parts, r.sql)) ELSE AccErr(r.err)

BuildConds(conds, i, parts) ==
    IF i > Len(conds) THEN AccOk(parts)
    ELSE AfterCond(conds, i, parts, build_condition(conds[i]))

build_condition(cond) ==
    IF "all" \in DOMAIN cond THEN Grouped(BuildConds(cond.all, 1, <<>>), <<" AND ">>)
    ELSE IF "any" \in DOMAIN cond THEN Grouped(BuildConds(cond.any, 1, <<>>), <<" OR ">>)
    ELSE IF "not" \in DOMAIN cond THEN Negated(build_condition(cond.not))
    ELSE Comparison(q_ident(cond.column), StrUpper(cond.op), GetOr(cond, "value", Null))

(* _build_expr *)
FnCall(fn, a) ==
    IF a.ok THEN SqlOk(fn \o <<"(">> \o JoinParts(a.parts, <<", ">>) \o <<")">>)
    ELSE SqlErr(a.err)

BinOp(op, a) ==
    IF a.ok
    THEN SqlOk(<<"(">> \o a.parts[1] \o <<" ">> \o op \o <<" ">> \o a.parts[2] \o <<")">>)
    ELSE SqlErr(a.err)

CaseEnd(w, e) ==
    IF ~w.ok THEN SqlErr(w.err)
    ELSE IF ~e.ok THEN SqlErr(e.err)
    ELSE SqlOk(<<"(CASE ">> \o JoinParts(w.parts, <<" ">>) \o e.sql \o <<" END)">>)

RECURSIVE build_expr(_, _), BuildArgs(_, _, _, _), BuildWhens(_, _, _, _)

AfterArg(args, i, in_scope, parts, r) ==
    IF r.ok THEN BuildArgs(args, i + 1, in_scope, Append(parts, r.sql))
    ELSE AccErr(r.err)

BuildArgs(args, i, in_scope, parts) ==
    IF i > Len(args) THEN AccOk(parts)
    ELSE AfterArg(args, i, in_scope, parts, build_expr(args[i], in_scope))

AfterThen(whens, i, in_scope, parts, c, r) ==
    IF r.ok
    THEN BuildWhens(whens, i + 1, in_scope,
                    Append(parts, <<"WHEN ">> \o c.sql \o <<" THEN ">> \o r.sql))
    ELSE AccErr(r.err)

AfterWhen(whens, i, in_scope, parts, c) ==
    IF c.ok THEN AfterThen(whens, i, in_scope, parts, c,
                           build_expr(whens[i].then, in_scope))
    ELSE AccErr(c.err)

BuildWhens(whens, i, in_scope, parts) ==
    IF i > Len(whens) THEN AccOk(parts)
    ELSE AfterWhen(whens, i, in_scope, parts, build_condition(whens[i].when))

OpNode(expr, in_scope) ==
    IF "args" \notin DOMAIN expr THEN SqlErr("TypeError")
    ELSE IF Len(expr.args) # 2 THEN SqlErr("ValueError")
    ELSE BinOp(expr.op, BuildArgs(expr.args, 1, in_scope, <<>>))

ElsePart(body, in_scope) ==
    IF "else" \in DOMAIN body
    THEN Prefixed(<<" ELSE ">>, build_expr(body.else, in_scope))
    ELSE SqlOk(<<>>)

CaseNode(body, in_scope) ==
    CaseEnd(BuildWhens(body.whens, 1, in_scope, <<>>), ElsePart(body, in_scope))

build_expr(expr, in_scope) ==
    IF "pystr" \in DOMAIN expr THEN SqlOk(q_ident(expr.pystr))
    ELSE IF "col" \in DOMAIN expr THEN SqlOk(q_ident(expr.col))
    ELSE IF "val" \in DOMAIN expr THEN SqlOk(lit(expr.val))
    ELSE IF "ref" \in DOMAIN expr THEN
        IF expr.ref \in in_scope THEN SqlOk(q_ident(expr.ref))
        ELSE SqlErr("Undefined ref")
    ELSE IF "fn" \in DOMAIN expr THEN
        IF StrUpper(expr.fn) \notin ALLOWED_FUNCS THEN SqlErr("Unsupported function")
        ELSE FnCall(StrUpper(expr.fn),
                    BuildArgs(GetOr(expr, "args", <<>>), 1, in_scope, <<>>))
    ELSE IF "op" \in DOMAIN expr THEN OpNode(expr, in_scope)
    ELSE IF "case" \in DOMAIN expr THEN CaseNode(expr.case, in_scope)
    ELSE SqlErr("Unsupported expression format")

(* _build_where *)
Truthy(v) ==
    CASE v.t = "null" -> FALSE
      [] v.t = "num" -> v.n # 0
      [] v.t = "str" -> v.s # <<>>
      [] v.t = "list" -> v.items # <<>>

ValuesOrValue(w) ==
    IF "values" \in DOMAIN w /\ Truthy(w.values) THEN w.values
    ELSE GetOr(w, "value", Null)

WhereIn(col, op, vals) ==
    IF vals.t # "list" THEN SqlErr("requires list of values")
    ELSE SqlOk(col \o <<" ">> \o op \o <<" (">> \o LitList(vals.items) \o <<")">>)

WherePart(w, col, op) ==
    IF op \notin ALLOWED_OPS THEN SqlErr("Unsupported operator")
    ELSE IF op \in {W_IN, W_NOT_IN} THEN WhereIn(col, op, ValuesOrValue(w))
    ELSE IF "value" \notin DOMAIN w THEN SqlErr("KeyError")
    ELSE SqlOk(col \o <<" ">> \o op \o <<" ">> \o lit(w.value))

RECURSIVE BuildWheres(_, _, _)

AfterWhere(ws, i, parts, r) ==
    IF r.ok THEN BuildWheres(ws, i + 1, Append(parts, r.sql)) ELSE AccErr(r.err)

BuildWheres(ws, i, parts) ==
    IF i > Len(ws) THEN AccOk(parts)
    ELSE AfterWhere(ws, i, parts,
                    WherePart(ws[i], q_ident(ws[i].column), StrStrip(StrUpper(ws[i].op))))

WhereEnd(a) ==
    IF ~a.ok THEN SqlErr(a.err)
    ELSE IF a.parts = <<>> THEN SqlOk(<<>>)
    ELSE SqlOk(<<"WHERE ">> \o JoinParts(a.parts, <<" AND ">>))

build_where(where_specs) == WhereEnd(BuildWheres(where_specs, 1, <<>>))

(* build_duckdb_sql_from_process, from the document load_process returned *)
NamedOk(cols, names) == [ok |-> TRUE, err |-> "", parts |-> cols, names |-> names]
NamedErr(e) == [ok |-> FALSE, err |-> e, parts |-> <<>>, names |-> {}]

RECURSIVE NamedLoop(_, _, _, _)

AfterNamed(nes, i, cols, names, r) ==
    IF r.ok
    THEN NamedLoop(nes, i + 1,
                   Append(cols, r.sql \o <<" AS ">> \o q_ident(nes[i].name)),
                   names \cup {nes[i].name})
    ELSE NamedErr(r.err)

NamedLoopSelfScope(nes, i, cols, names) ==
    IF i > Len(nes) THEN NamedOk(cols, names)
    ELSE AfterNamed(nes, i, cols, names,
                    build_expr(nes[i].expr, names \cup {nes[i].name}))

(* The loop over named_expressions from entry i on: the columns of the    *)
(* CTE so far and the names in scope so far.                              *)
NamedLoop(nes, i, cols, names) ==
    IF i > Len(nes) THEN NamedOk(cols, names)
    ELSE AfterNamed(nes, i, cols, names, build_expr(nes[i].expr, names))

RECURSIVE AggLoop(_, _, _, _)

AfterAgg(aggs, i, in_scope, parts, fn, r) ==
    IF r.ok
    THEN AggLoop(aggs, i + 1, in_scope,
                 Append(parts, fn \o <<"(">> \o r.sql \o <<") AS ">>
                                  \o q_ident(aggs[i].alias)))
    ELSE AccErr(r.err)

AggStepAnyFunction(aggs, i, in_scope, parts, fn) ==
    IF fn \notin ALLOWED_FUNCS THEN AccErr("Unsupported aggregation")
    ELSE AfterAgg(aggs, i, in_scope, parts, fn, build_expr(aggs[i].expr, in_scope))

(* One aggregation entry: the function name is checked, then its expr is  *)
(* compiled in the outer scope.                                           *)
AggStep(aggs, i, in_scope, parts, fn) ==
    IF fn \notin ALLOWED_AGG_FUNCS THEN AccErr("Unsupported aggregation")
    ELSE AfterAgg(aggs, i, in_scope, parts, fn, build_expr(aggs[i].expr, in_scope))

AggLoop(aggs, i, in_scope, parts) ==
    IF i > Len(aggs) THEN AccOk(parts)
    ELSE AggStep(aggs, i, in_scope, parts, StrUpper(aggs[i].fn))

(* an order_by expr: [int |-> n] is a JSON integer, [pystr |-> s] a string *)
OrderExpr(e, in_scope) ==
    IF "int" \in DOMAIN e THEN SqlOk(IntToStr(e.int))
    ELSE IF "pystr" \in DOMAIN e THEN
        IF IsDigits(e.pystr) THEN SqlOk(e.pystr) ELSE SqlOk(q_ident(e.pystr))
    ELSE build_expr(e, in_scope)

RECURSIVE OrderLoop(_, _, _, _)

AfterOrder(obs, i, in_scope, parts, r) ==
    IF r.ok
    THEN OrderLoop(obs, i + 1, in_scope,
                   Append(parts, r.sql \o (IF GetOr(obs[i], "asc", TRUE)
                                           THEN <<" ASC">> ELSE <<" DESC">>)))
    ELSE AccErr(r.err)

OrderLoop(obs, i, in_scope, parts) ==
    IF i > Len(obs) THEN AccOk(parts)
    ELSE AfterOrder(obs, i, in_scope, parts, OrderExpr(obs[i].expr, in_scope))

OrderEnd(a) ==
    IF ~a.ok THEN SqlErr(a.err)
    ELSE IF a.parts = <<>> THEN SqlOk(<<>>)
    ELSE SqlOk(<<"ORDER BY ">> \o JoinParts(a.parts, <<", ">>))

limit_sql(limit) ==
    IF limit.t = "num" THEN <<"LIMIT ">> \o IntToStr(limit.n) ELSE <<>>

Indent == "\n        "
LastIndent == "\n    "

RECURSIVE StripLayout(_)
StripLayout(text) ==
    IF text # <<>> /\ text[Len(text)] \in {Indent, LastIndent}
    THEN StripLayout(SubSeq(text, 1, Len(text) - 1))
    ELSE text

GroupIdents(group_by) == [i \in 1..Len(group_by) |-> q_ident(group_by[i])]

group_sql(group_by) ==
    IF group_by = <<>> THEN <<>>
    ELSE <<"GROUP BY ">> \o JoinParts(GroupIdents(group_by), <<", ">>)

with_sql_Unfiltered(src, where, cte_cols) ==
    IF cte_cols = <<>> THEN <<>>
    ELSE <<"WITH base AS (">> \o <<"SELECT *, ">> \o JoinParts(cte_cols, <<", ">>)
             \o <<" FROM ">> \o src \o <<")\n">>

with_sql(src, where, cte_cols) ==
    IF cte_cols = <<>> THEN <<>>
    ELSE <<"WITH base AS (">> \o <<"SELECT *, ">> \o JoinParts(cte_cols, <<", ">>)
             \o <<" FROM ">> \o src
             \o (IF where # <<>> THEN <<" ">> \o where ELSE <<>>) \o <<")\n">>

outer_sql(src, where, cte_cols, selects, group_by, order, limit) ==
    StripLayout(<<"SELECT", Indent>> \o JoinParts(selects, <<",\n    ">>)
                \o <<Indent, "FROM ">> \o (IF cte_cols = <<>> THEN src ELSE <<"base">>)
                \o <<Indent>> \o (IF cte_cols = <<>> THEN where ELSE <<>>)
                \o <<Indent>> \o group_sql(group_by)
                \o <<Indent>> \o order
                \o <<Indent>> \o limit
                \o <<LastIndent>>)

SqlAfterOrder(proc, src, where, cte_cols, selects, o) ==
    IF ~o.ok THEN SqlErr(o.err)
    ELSE SqlOk(with_sql(src, where, cte_cols)
               \o outer_sql(src, where, cte_cols, selects, proc.group_by, o.sql,
                            limit_sql(GetOr(proc, "limit", Null))))

SqlAfterAggs(proc, src, where, cte_cols, in_scope_outer, a) ==
    IF ~a.ok THEN SqlErr(a.err)
    ELSE SqlAfterOrder(proc, src, where, cte_cols, a.parts,
                       OrderEnd(OrderLoop(GetOr(proc, "order_by", <<>>), 1,
                                          in_scope_outer, <<>>)))

SqlAfterScope(proc, src, where, cte_cols, in_scope_outer) ==
    SqlAfterAggs(proc, src, where, cte_cols, in_scope_outer,
                 AggLoop(GetOr(proc, "aggregations", <<>>), 1, in_scope_outer,
                         GroupIdents(proc.group_by)))

SqlAfterNamed(proc, src, where, ne) ==
    IF ~ne.ok THEN SqlErr(ne.err)
    ELSE IF "group_by" \notin DOMAIN proc THEN SqlErr("KeyError")
    ELSE SqlAfterScope(proc, src, where, ne.parts,
                       ne.names \cup SeqToSet(proc.group_by))

SqlAfterWhere(proc, src, w) ==
    IF ~w.ok THEN SqlErr(w.err)
    ELSE SqlAfterNamed(proc, src, w.sql,
                       NamedLoop(GetOr(proc, "named_expressions", <<>>), 1, <<>>, {}))

build_duckdb_sql_from_process(proc) ==
    IF "source" \notin DOMAIN proc THEN SqlErr("KeyError")
    ELSE SqlAfterWhere(proc, q_ident(proc.source),
                       build_where(GetOr(proc, "where", <<>>)))

----------------------------------------------------------------------------
(* Documents handed to the compiler *)

MaxArgs == 2
MaxNamed == 2

N_a == <<"a">>
N_q == <<"a", "\"">>
N_x == <<"x">>
N_y == <<"y">>
N_g == <<"g">>
N_t == <<"t">>
N_s == <<"s">>

F_sum == <<"s", "u", "m">>
F_exec == <<"e", "x", "e", "c">>
F_EXEC == <<"E", "X", "E", "C">>

O_in == <<"i", "n">>
O_is_null == <<"i", "s", " ", "n", "u", "l", "l">>
O_eq_padded == <<" ", "=", " ">>
O_tilde == <<"~", "~">>
O_plus == <<"+">>

Texty == Str(<<"o", "'">>)

Leaves ==
    { [col |-> N_a], [pystr |-> N_q], [val |-> Num(1)], [val |-> Texty],
      [ref |-> N_x], [ref |-> N_y], [fn |-> F_exec], [bogus |-> Num(1)] }

SeqsUpTo(S, k) == UNION {[1..n -> S] : n \in 0..k}

Comparisons ==
    LET ops == {W_EQ, O_in, W_BETWEEN, O_is_null, O_tilde, W_LIKE}
        vals == {Null, Num(1), Texty, List(<<Num(1), Num(2)>>), List(<<Texty>>)}
    IN  { c \in {[column |-> N_a, op |-> o, value |-> v] : o \in ops, v \in vals} :
            c.value.t = "list" => StrUpper(c.op) \in {W_IN, W_NOT_IN, W_BETWEEN} }
        \cup {[column |-> N_q, op |-> o] : o \in ops}

Guards ==
    { [column |-> N_a, op |-> W_EQ, value |-> Num(1)],
      [column |-> N_a, op |-> O_tilde, value |-> Num(1)],
      [column |-> N_a, op |-> O_in, value |-> Num(1)],
      [not |-> [column |-> N_a, op |-> O_is_null]] }

Conditions ==
    Comparisons
    \cup {[all |-> q] : q \in SeqsUpTo(Guards, 2)}
    \cup {[any |-> q] : q \in SeqsUpTo(Guards, 2)}
    \cup {[not |-> c] : c \in Guards}
    \cup {[not |-> [any |-> <<c, [all |-> <<d>>]>>]] : c, d \in Guards}

FnNodes(S) ==
    {[fn |-> f, args |-> q] : f \in {F_sum, W_COALESCE, F_exec}, q \in SeqsUpTo(S, MaxArgs)}
    \cup {[fn |-> f] : f \in {W_ABS, F_EXEC}}

OpNodes(S) ==
    {[op |-> O_plus, args |-> q] : q \in SeqsUpTo(S, MaxArgs) \ {<<>>}}
    \cup {[op |-> O_plus]}
    \cup {[op |-> O_plus, args |-> <<x, x, x>>] : x \in S}

CaseNodes(S) ==
    {[case |-> [whens |-> <<[when |-> c, then |-> t]>>]] : c \in Guards, t \in S}
    \cup {[case |-> [whens |-> <<[when |-> c, then |-> t]>>, else |-> e]] :
            c \in Guards, t \in S, e \in S}
    \cup {[case |-> [whens |-> <<[when |-> c, then |-> t], [when |-> d, then |-> t]>>]] :
            c \in Guards, d \in Guards, t \in S}

Composite == FnNodes(Leaves) \cup OpNodes(Leaves) \cup CaseNodes(Leaves)

Nested ==
    {[fn |-> W_COALESCE, args |-> <<e>>] : e \in Composite}
    \cup {[op |-> O_plus, args |-> <<[ref |-> N_y], e>>] : e \in Composite}
    \cup {[case |-> [whens |-> <<[when |-> [column |-> N_a, op |-> W_EQ,
                                            value |-> Num(1)],
                                  then |-> [val |-> Num(1)]]>>,
                     else |-> e]] : e \in Composite}
    \cup {[col |-> N_a, fn |-> F_exec], [val |-> Null, ref |-> N_y]}

Exprs == Leaves \cup Composite \cup Nested

Scopes == SUBSET {N_x, N_y}

WhereItems ==
    { [column |-> N_a, op |-> O_eq_padded, value |-> Num(1)],
      [column |-> N_q, op |-> O_in, values |-> List(<<Num(1), Texty>>)],
      [column |-> N_a, op |-> O_in, values |-> List(<<>>), value |-> List(<<Num(2)>>)],
      [column |-> N_a, op |-> W_NOT_IN, value |-> Num(1)],
      [column |-> N_a, op |-> O_tilde, value |-> Num(1)],
      [column |-> N_a, op |-> W_LIKE, value |-> Texty],
      [column |-> N_a, op |-> O_is_null, value |-> Null],
      [column |-> N_a, op |-> O_is_null] }

Wheres == SeqsUpTo(WhereItems, 2)

NamedItems ==
    { [name |-> n, expr |-> e] :
        n \in {N_x, N_y},
        e \in { [val |-> Num(1)], [ref |-> N_x], [ref |-> N_y], [fn |-> F_exec],
                [fn |-> W_COALESCE, args |-> <<[ref |-> N_x], [val |-> Num(1)]>>] } }

AggItems ==
    { [fn |-> F_sum, expr |-> e, alias |-> N_s] :
        e \in { [col |-> N_a], [ref |-> N_x], [ref |-> N_g], [fn |-> F_exec],
                [fn |-> W_ABS, args |-> <<[ref |-> N_y]>>] } }
    \cup { [fn |-> W_COALESCE, expr |-> [col |-> N_a], alias |-> N_s],
           [fn |-> F_exec, expr |-> [col |-> N_a], alias |-> N_s] }

Aggregations ==
    {<<a>> : a \in AggItems}
    \cup {<<[fn |-> W_COUNT, expr |-> [val |-> Num(1)], alias |-> N_q],
            [fn |-> F_sum, expr |-> [ref |-> N_y], alias |-> N_s]>>,
          <<[fn |-> F_sum, expr |-> [ref |-> N_y], alias |-> N_s],
            [fn |-> W_COALESCE, expr |-> [col |-> N_a], alias |-> N_q]>>}

OrderBys ==
    { <<[expr |-> [int |-> 1]]>>,
      <<[expr |-> [pystr |-> N_a], asc |-> FALSE]>>,
      <<[expr |-> [ref |-> N_g]]>>,
      <<[expr |-> [ref |-> N_x]], [expr |-> [pystr |-> <<"2">>], asc |-> TRUE]>>,
      <<[expr |-> [fn |-> F_exec]]>> }

Limits == {Num(5), Num(-1), Str(<<"5">>)}

ProcWheres ==
    { <<[column |-> N_a, op |-> O_eq_padded, value |-> Num(1)]>>,
      <<[column |-> N_a, op |-> O_tilde, value |-> Num(1)]>>,
      <<[column |-> N_a, op |-> W_LIKE, value |-> Texty],
        [column |-> N_q, op |-> O_in, values |-> List(<<Num(1), Texty>>)]>> }

(* A key that may be absent from the document *)
NoKey == [k \in {} |-> Null]
Optional(key, S) == {NoKey} \cup {key :> v : v \in S}

Procs ==
    { [source |-> N_t, group_by |-> g] @@ w @@ n @@ a @@ o @@ l :
        g \in {<<>>, <<N_g>>},
        w \in Optional("where", ProcWheres),
        n \in Optional("named_expressions", SeqsUpTo(NamedItems, MaxNamed)),
        a \in Optional("aggregations", Aggregations),
        o \in Optional("order_by", OrderBys),
        l \in Optional("limit", Limits) }

----------------------------------------------------------------------------
(* The compiler as a state machine: one call of one of its functions *)

SchemaIdle ==
    /\ schema = NoSchema
    /\ raw = NoDf
    /\ df = NoDf
    /\ outcome = NoCall

InitSQL ==
    /\ pc = "idle"
    /\ call = "none"
    /\ SchemaIdle
    /\ CompilerIdle
    /\ DriverIdle

CallBuildExpr ==
    /\ pc = "idle"
    /\ \E e \in Exprs, s \in Scopes :
        /\ arg' = e
        /\ scope' = s
        /\ sql' = build_expr(e, s)
    /\ call' = "_build_expr"
    /\ pc' = "done"
    /\ UNCHANGED <<schemaVars, mainVars>>

CallBuildCondition ==
    /\ pc = "idle"
    /\ \E c \in Conditions :
        /\ arg' = c
        /\ sql' = build_condition(c)
    /\ call' = "_build_condition"
    /\ pc' = "done"
    /\ UNCHANGED <<schemaVars, mainVars, scope>>

CallBuildWhere ==
    /\ pc = "idle"
    /\ \E w \in Wheres :
        /\ arg' = w
        /\ sql' = build_where(w)
    /\ call' = "_build_where"
    /\ pc' = "done"
    /\ UNCHANGED <<schemaVars, mainVars, scope>>

CallBuildSql ==
    /\ pc = "idle"
    /\ \E p \in Procs :
        /\ arg' = p
        /\ sql' = build_duckdb_sql_from_process(p)
    /\ call' = "build_duckdb_sql_from_process"
    /\ pc' = "done"
    /\ UNCHANGED <<schemaVars, mainVars, scope>>

NextSQL ==
    \/ CallBuildExpr
    \/ CallBuildCondition
    \/ CallBuildWhere
    \/ CallBuildSql

SpecSQL == InitSQL /\ [][NextSQL]_vars

----------------------------------------------------------------------------
(* Claims about the query compiler *)

ClaimedFuncs ==
    { <<"S", "U", "M">>, <<"C", "O", "U", "N", "T">>, <<"A", "V", "G">>,
      <<"M", "I", "N">>, <<"M", "A", "X">>, <<"C", "O", "A", "L", "E", "S", "C", "E">>,
      <<"A", "B", "S">>, <<"R", "O", "U", "N", "D">>, <<"F", "L", "O", "O", "R">>,
      <<"C", "E", "I", "L">>, <<"N", "U", "L", "L", "I", "F">> }

ClaimedOps ==
    { <<"=">>, <<"!", "=">>, <<"<">>, <<">">>, <<"<", "=">>, <<">", "=">>,
      <<"I", "N">>, <<"N", "O", "T", " ", "I", "N">>, <<"L", "I", "K", "E">>,
      <<"B", "E", "T", "W", "E", "E", "N">>, <<"I", "S", " ", "N", "U", "L", "L">>,
      <<"I", "S", " ", "N", "O", "T", " ", "N", "U", "L", "L">> }

(* What an expression node is, by the first key it is recognised by *)
Kind(e) ==
    IF "pystr" \in DOMAIN e THEN "str"
    ELSE IF "col" \in DOMAIN e THEN "col"
    ELSE IF "val" \in DOMAIN e THEN "val"
    ELSE IF "ref" \in DOMAIN e THEN "ref"
    ELSE IF "fn" \in DOMAIN e THEN "fn"
    ELSE IF "op" \in DOMAIN e THEN "op"
    ELSE IF "case" \in DOMAIN e THEN "case"
    ELSE "other"

(* Function arguments, operator operands, CASE results and CASE else *)
Children(e) ==
    IF Kind(e) \in {"fn", "op"} THEN GetOr(e, "args", <<>>)
    ELSE IF Kind(e) = "case"
    THEN [i \in 1..Len(e.case.whens) |-> e.case.whens[i].then]
         \o (IF "else" \in DOMAIN e.case THEN <<e.case.else>> ELSE <<>>)
    ELSE <<>>

RECURSIVE Nodes(_)
Nodes(e) == {e} \cup UNION {Nodes(Children(e)[i]) : i \in 1..Len(Children(e))}

IsBadFn(n) == Kind(n) = "fn" /\ StrUpper(n.fn) \notin ClaimedFuncs
HasBadFn(e) == \E n \in Nodes(e) : IsBadFn(n)

Refs(e) == {n.ref : n \in {m \in Nodes(e) : Kind(m) = "ref"}}

RECURSIVE CondFine(_)
CondFine(c) ==
    IF "all" \in DOMAIN c THEN \A i \in 1..Len(c.all) : CondFine(c.all[i])
    ELSE IF "any" \in DOMAIN c THEN \A i \in 1..Len(c.any) : CondFine(c.any[i])
    ELSE IF "not" \in DOMAIN c THEN CondFine(c.not)
    ELSE /\ StrUpper(c.op) \in {W_IN, W_NOT_IN} => GetOr(c, "value", Null).t = "list"
         /\ StrUpper(c.op) = W_BETWEEN =>
                \/ GetOr(c, "value", Null).t = "list" /\ Len(c.value.items) = 2
                \/ GetOr(c, "value", Null).t = "str" /\ Len(c.value.s) = 2

(* A node that is no function call has a known form, its operator has two *)
(* operands and its CASE guards compile                                   *)
NodeFine(n) ==
    /\ Kind(n) # "other"
    /\ Kind(n) = "op" => "args" \in DOMAIN n /\ Len(n.args) = 2
    /\ Kind(n) = "case" => \A i \in 1..Len(n.case.whens) : CondFine(n.case.whens[i].when)

WellFormed(e) == \A n \in Nodes(e) : NodeFine(n) /\ ~IsBadFn(n)

NoOtherDefect(e, in_scope) ==
    /\ Refs(e) \subseteq in_scope
    /\ \A n \in Nodes(e) : Kind(n) = "fn" \/ NodeFine(n)

SeqRange(q) == {q[i] : i \in 1..Len(q)}

ProcExprs(p) ==
    {ne.expr : ne \in SeqRange(GetOr(p, "named_expressions", <<>>))}
    \cup {a.expr : a \in SeqRange(GetOr(p, "aggregations", <<>>))}
    \cup {o.expr : o \in SeqRange(GetOr(p, "order_by", <<>>))}

(* C4 as claimed: whenever the tree handed to _build_expr holds a call of  *)
(* a function outside the whitelist, at any depth, _build_expr raises      *)
(* 'Unsupported function'.                                                 *)
C4_AlwaysUnsupportedFunction ==
    (call = "_build_expr" /\ HasBadFn(arg)) =>
        (~sql.ok /\ sql.err = "Unsupported function")

(* C4 amended: a tree holding a call of a function outside the whitelist   *)
(* never compiles: _build_expr raises and returns no SQL text, and the     *)
(* error is 'Unsupported function' when the tree has no other defect (no   *)
(* unresolved ref, no malformed node); a process holding such a node in a  *)
(* named, aggregation or order-by expression returns no SQL.               *)
C4_BadFunctionNeverCompiles ==
    /\ (call = "_build_expr" /\ HasBadFn(arg)) =>
          /\ ~sql.ok
          /\ sql.sql = <<>>
          /\ NoOtherDefect(arg, scope) => sql.err = "Unsupported function"
    /\ (call = "build_duckdb_sql_from_process"
          /\ \E e \in ProcExprs(arg) : HasBadFn(e)) =>
          (~sql.ok /\ sql.sql = <<>>)

(* C4 witness: a bad function call as the second operand of an operator    *)
(* whose first operand resolves is refused with 'Unsupported function'     *)
C4_NestedExecRefused ==
    /\ call = "_build_expr"
    /\ Kind(arg) = "op" /\ Len(GetOr(arg, "args", <<>>)) = 2
    /\ arg.args[1] = [ref |-> N_y] /\ scope = {N_y}
    /\ IsBadFn(arg.args[2])
    /\ ~sql.ok /\ sql.err = "Unsupported function" /\ sql.sql = <<>>

RECURSIVE CondOps(_)
CondOps(c) ==
    IF "all" \in DOMAIN c THEN UNION {CondOps(c.all[i]) : i \in 1..Len(c.all)}
    ELSE IF "any" \in DOMAIN c THEN UNION {CondOps(c.any[i]) : i \in 1..Len(c.any)}
    ELSE IF "not" \in DOMAIN c THEN CondOps(c.not)
    ELSE {StrUpper(c.op)}

GuardOps(e) ==
    UNION { UNION {CondOps(n.case.whens[i].when) : i \in 1..Len(n.case.whens)}
            : n \in {m \in Nodes(e) : Kind(m) = "case"} }

WhereOps(ws) == {StrStrip(StrUpper(ws[i].op)) : i \in 1..Len(ws)}

(* C5 as claimed: compiling a condition whose operator is outside the      *)
(* fixed set fails and emits no SQL, in a flat where clause                *)
(* (_build_where), in a condition tree (_build_condition, also under       *)
(* all / any / not) and in a CASE guard.                                   *)
C5_OnlyClaimedOperators ==
    /\ (call = "_build_where" /\ ~(WhereOps(arg) \subseteq ClaimedOps)) =>
          (~sql.ok /\ sql.sql = <<>>)
    /\ (call = "_build_condition" /\ ~(CondOps(arg) \subseteq ClaimedOps)) =>
          (~sql.ok /\ sql.sql = <<>>)
    /\ (call = "_build_expr" /\ ~(GuardOps(arg) \subseteq ClaimedOps)) =>
          (~sql.ok /\ sql.sql = <<>>)

NamedOf(p) == GetOr(p, "named_expressions", <<>>)
NamesBefore(nes, i) == {nes[j].name : j \in 1..(i - 1)}
OuterNames(p) == NamesBefore(NamedOf(p), Len(NamedOf(p)) + 1) \cup SeqRange(p.group_by)

NamedFine(nes, i) ==
    WellFormed(nes[i].expr) /\ Refs(nes[i].expr) \subseteq NamesBefore(nes, i)

IsDictExpr(e) == "int" \notin DOMAIN e /\ "pystr" \notin DOMAIN e

OuterFine(p) ==
    /\ \A a \in SeqRange(GetOr(p, "aggregations", <<>>)) :
          /\ StrUpper(a.fn) \in {W_SUM, W_COUNT, W_AVG, W_MIN, W_MAX}
          /\ WellFormed(a.expr)
          /\ Refs(a.expr) \subseteq OuterNames(p)
    /\ \A o \in SeqRange(GetOr(p, "order_by", <<>>)) :
          IsDictExpr(o.expr) =>
              (WellFormed(o.expr) /\ Refs(o.expr) \subseteq OuterNames(p))

WhereFine(p) == build_where(GetOr(p, "where", <<>>)).ok

----------------------------------------------------------------------------
(* The pipeline driver: main() of customer_analysis.py.                    *)
(* Files, the DuckDB engine and the table registration are outside the     *)
(* program: each either fails or delivers, and the engine delivers any     *)
(* result table.  pc is the statement main() is at: "main", "register",    *)
(* "compile", "execute", "apply", "write", "exited".                       *)

AllStages ==
    <<"read_input", "register_tables", "compile_sql", "execute_sql",
      "coerce_output", "validate_output">>

MainSchemas ==
    {s \in Schemas : Len(s.fields) = 1 /\ s.fields[1].name = "a" /\ s.primaryKey = <<>>}

OutSchemas ==
    {s \in Schemas : Len(s.fields) = 1 /\ s.fields[1].name # "a" /\ s.primaryKey = <<>>}

MainProcs ==
    { [source |-> N_t, group_by |-> <<N_g>>,
       aggregations |-> <<[fn |-> F_sum, expr |-> [col |-> N_a], alias |-> N_s]>>],
      [source |-> N_t, group_by |-> <<>>,
       named_expressions |-> <<[name |-> N_x, expr |-> [ref |-> N_y]]>>],
      [source |-> N_t, group_by |-> <<N_g>>,
       where |-> <<[column |-> N_a, op |-> O_tilde, value |-> Num(1)]>>] }

FileNotFound == Raised("FileNotFoundError", "", "", <<>>)
LoadSchemaHead == "Failed to load schema from"
SchemaNotLoaded == Raised("ValueError", LoadSchemaHead, "", <<>>)

(* The except clauses of both try blocks end in sys.exit(1) *)
AfterRead(o) == IF o.kind = "ok" THEN "register" ELSE "exited"
AfterRegister(ok) == IF ok THEN "compile" ELSE "exited"
AfterCompile(r) == IF r.ok THEN "execute" ELSE "exited"
AfterExecute(ok) == IF ok THEN "apply" ELSE "exited"
AfterApplyLenient(o) == "write"
AfterApply(o) == IF o.kind = "ok" THEN "write" ELSE "exited"

ExitStatus(next) == IF next = "exited" THEN "1" ELSE "running"

(* finally: con.close() when the second try block is left *)
Closed(c) == IF c = "none" THEN "none" ELSE "closed"

InitMain ==
    /\ pc = "main"
    /\ call = "none"
    /\ schema \in MainSchemas
    /\ raw \in RawDatasets(FieldNames(schema))
    /\ df = NoDf
    /\ outcome = NoCall
    /\ arg \in MainProcs
    /\ scope = {}
    /\ sql = NoSql
    /\ stages = <<>>
    /\ exit = "running"
    /\ written = FALSE
    /\ con = "none"
    /\ out_schema \in OutSchemas

MainReadInput ==
    /\ pc = "main"
    /\ \E found \in BOOLEAN :
        outcome' = IF found THEN read_with_schema(raw, schema) ELSE FileNotFound
    /\ call' = "read_with_schema"
    /\ pc' = AfterRead(outcome')
    /\ exit' = ExitStatus(pc')
    /\ df' = outcome'.df
    /\ stages' = IF pc' = "exited" THEN stages ELSE Append(stages, "read_input")
    /\ UNCHANGED <<schema, raw, sqlVars, written, con, out_schema>>

MainRegister ==
    /\ pc = "register"
    /\ \E r \in {"ok", "connect fails", "register fails"} :
        /\ con' = CASE r = "ok" -> "open"
                    [] r = "connect fails" -> "none"
                    [] r = "register fails" -> "closed"
        /\ pc' = AfterRegister(r = "ok")
    /\ call' = "register_tables_from_config"
    /\ exit' = ExitStatus(pc')
    /\ stages' = IF pc' = "exited" THEN stages ELSE Append(stages, "register_tables")
    /\ UNCHANGED <<schemaVars, sqlVars, written, out_schema>>

MainCompile ==
    /\ pc = "compile"
    /\ sql' = build_duckdb_sql_from_process(arg)
    /\ call' = "build_duckdb_sql_from_process"
    /\ pc' = AfterCompile(sql')
    /\ exit' = ExitStatus(pc')
    /\ con' = IF pc' = "exited" THEN Closed(con) ELSE con
    /\ stages' = IF pc' = "exited" THEN stages ELSE Append(stages, "compile_sql")
    /\ UNCHANGED <<schemaVars, arg, scope, written, out_schema>>

MainExecute ==
    /\ pc = "execute"
    /\ \E ok \in BOOLEAN :
        /\ pc' = AfterExecute(ok)
        /\ IF ok THEN df' \in RawDatasets(FieldNames(out_schema)) ELSE df' = df
    /\ call' = "con.sql"
    /\ exit' = ExitStatus(pc')
    /\ con' = IF pc' = "exited" THEN Closed(con) ELSE con
    /\ stages' = IF pc' = "exited" THEN stages ELSE Append(stages, "execute_sql")
    /\ UNCHANGED <<schema, raw, outcome, sqlVars, written, out_schema>>

MainApplyOutput ==
    /\ pc = "apply"
    /\ \E found \in BOOLEAN :
        outcome' = IF found THEN apply_schema_from_path(df, out_schema)
                   ELSE SchemaNotLoaded
    /\ call' = "apply_schema_from_path"
    /\ pc' = AfterApply(outcome')
    /\ exit' = ExitStatus(pc')
    /\ con' = Closed(con)
    /\ df' = IF outcome'.kind = "ok" THEN outcome'.df ELSE df
    /\ stages' =
         IF outcome'.kind = "ok"
         THEN stages \o <<"coerce_output", "validate_output">>
         ELSE IF outcome'.head \in {WrapValidateHead, UnexpectedValidateHead}
         THEN Append(stages, "coerce_output")
         ELSE stages
    /\ UNCHANGED <<schema, raw, sqlVars, written, out_schema>>

MainWrite ==
    /\ pc = "write"
    /\ written' = TRUE
    /\ \E ok \in BOOLEAN : exit' = IF ok THEN "0" ELSE "1"
    /\ call' = "to_csv"
    /\ pc' = "exited"
    /\ UNCHANGED <<schemaVars, sqlVars, stages, con, out_schema>>

NextMain ==
    \/ MainReadInput
    \/ MainRegister
    \/ MainCompile
    \/ MainExecute
    \/ MainApplyOutput
    \/ MainWrite

SpecMain == InitMain /\ [][NextMain]_vars

IsPrefix(p, q) == Len(p) <= Len(q) /\ SubSeq(q, 1, Len(p)) = p

(* C10: main() performs the output write only after the input has been    *)
(* read, coerced and validated, the tables registered, the SQL compiled   *)
(* and executed and the result coerced and validated against the output   *)
(* schema, in this order; when any of these stages fails the run ends     *)
(* with exit status 1 and the write is never performed.                   *)
C10_WriteOnlyAfterEveryStage ==
    /\ IsPrefix(stages, AllStages)
    /\ (pc # "exited") => (exit = "running" /\ ~written)
    /\ (pc = "write") => (stages = AllStages)
    /\ written =>
          /\ stages = AllStages
          /\ read_with_schema(raw, schema).kind = "ok"
          /\ sql = build_duckdb_sql_from_process(arg) /\ sql.ok
          /\ outcome.kind = "ok"
          /\ con = "closed"
    /\ (pc = "exited" /\ stages # AllStages) => (exit = "1" /\ ~written)
    /\ (exit = "0") => written

(* C10 witness: a run that wrote its output and ended with status 0 *)
C10_WrittenAfterAllStages ==
    /\ written /\ exit = "0" /\ stages = AllStages
    /\ sql.ok /\ outcome.kind = "ok" /\ df.n > 0

----------------------------------------------------------------------------
(* Quoting alone: _q_ident on every name and _lit on every value, names    *)
(* and strings being any text of up to MaxQuoteLen characters over         *)
(* QuoteChars and numbers any integer of magnitude up to MaxLitNum.        *)

MaxQuoteLen == 4
MaxLitNum == 12
QuoteChars == {"a", "\"", "'"}

QuoteTexts == UNION {[1..k -> QuoteChars] : k \in 0..MaxQuoteLen}

LitValues ==
    {Null} \cup {Num(n) : n \in (0 - MaxLitNum)..MaxLitNum}
           \cup {Str(t) : t \in QuoteTexts}

InitQuote ==
    /\ pc = "idle"
    /\ call = "none"
    /\ SchemaIdle
    /\ CompilerIdle
    /\ DriverIdle

CallQIdent ==
    /\ pc = "idle"
    /\ \E name \in QuoteTexts :
        /\ arg' = name
        /\ sql' = SqlOk(q_ident(name))
    /\ call' = "_q_ident"
    /\ pc' = "done"
    /\ UNCHANGED <<schemaVars, mainVars, scope>>

CallLit ==
    /\ pc = "idle"
    /\ \E val \in LitValues :
        /\ arg' = val
        /\ sql' = SqlOk(lit(val))
    /\ call' = "_lit"
    /\ pc' = "done"
    /\ UNCHANGED <<schemaVars, mainVars, scope>>

NextQuote == CallQIdent \/ CallLit

SpecQuote == InitQuote /\ [][NextQuote]_vars

(* The delimiter q occurs in s only in adjacent pairs *)
RECURSIVE PairsOnly(_, _)
PairsOnly(s, q) ==
    IF s = <<>> THEN TRUE
    ELSE IF s[1] # q THEN PairsOnly(Tail(s), q)
    ELSE Len(s) >= 2 /\ s[2] = q /\ PairsOnly(SubSeq(s, 3, Len(s)), q)

(* Each adjacent pair of q in s replaced by a single q *)
RECURSIVE Undoubled(_, _)
Undoubled(s, q) ==
    IF s = <<>> THEN <<>>
    ELSE IF s[1] = q /\ Len(s) >= 2 /\ s[2] = q
    THEN <<q>> \o Undoubled(SubSeq(s, 3, Len(s)), q)
    ELSE <<s[1]>> \o Undoubled(Tail(s), q)

Count(s, q) == Cardinality({i \in 1..Len(s) : s[i] = q})

Interior(t) == SubSeq(t, 2, Len(t) - 1)

QuotedAs(t, x, q) ==
    /\ Len(t) = Len(x) + Count(x, q) + 2
    /\ t[1] = q /\ t[Len(t)] = q
    /\ PairsOnly(Interior(t), q)
    /\ Undoubled(Interior(t), q) = x
    /\ \A c \in QuoteChars \ {q} : Count(t, c) = Count(x, c)

(* C11: _q_ident(name) is a double quote, the name with every embedded    *)
(* double quote doubled, and a double quote; _lit of a string is the same *)
(* with single quotes; between the outer delimiters the delimiter occurs  *)
(* only in adjacent pairs and un-doubling gives the original back; a      *)
(* number is emitted as its digits, unquoted, and null as NULL.           *)
C11_QuotingReversible ==
    /\ call = "_q_ident" => QuotedAs(sql.sql, arg, "\"")
    /\ (call = "_lit" /\ arg.t = "str") => QuotedAs(sql.sql, arg.s, "'")
    /\ (call = "_lit" /\ arg.t = "num") =>
          /\ \A i \in 1..Len(sql.sql) : sql.sql[i] \in Digits \cup {"-"}
          /\ sql.sql = IntToStr(arg.n)
          /\ (IF arg.n < 0 THEN 0 - ParseNat(Tail(sql.sql)) ELSE ParseNat(sql.sql)) = arg.n
    /\ (call = "_lit" /\ arg.t = "null") => sql.sql = <<"NULL">>

(* C11 witness: a name holding a double quote, quoted with the quote twice *)
C11_EmbeddedQuoteDoubled ==
    /\ call = "_q_ident"
    /\ arg = <<"a", "\"", "'">>
    /\ sql.sql = <<"\"", "a", "\"", "\"", "'", "\"">>

----------------------------------------------------------------------------
(* Claims about the text build_duckdb_sql_from_process returns *)

StartsWith(t, p) == Len(t) >= Len(p) /\ SubSeq(t, 1, Len(p)) = p
EndsWith(t, p) == Len(t) >= Len(p) /\ SubSeq(t, Len(t) - Len(p) + 1, Len(t)) = p
Contains(t, p) == \E i \in 1..(Len(t) - Len(p) + 1) : SubSeq(t, i, i + Len(p) - 1) = p

Compiled == call = "build_duckdb_sql_from_process" /\ sql.ok

WhereText(p) == build_where(GetOr(p, "where", <<>>)).sql

(* The text up to and including the piece that closes the CTE, and the rest *)
CteEnd(t) == IF \E i \in 1..Len(t) : t[i] = ")\n"
             THEN CHOOSE i \in 1..Len(t) : t[i] = ")\n" ELSE 0
CtePart(t) == SubSeq(t, 1, CteEnd(t))
OuterPart(t) == SubSeq(t, CteEnd(t) + 1, Len(t))

(* C12: the flat where clauses are rendered once: with named expressions  *)
(* the WHERE is inside the 'base' CTE, which selects '*, <named exprs>'   *)
(* from the quoted source, and the outer query selects FROM base without  *)
(* WHERE; with named_expressions empty or absent there is no CTE, the     *)
(* outer FROM is the quoted source and the WHERE follows it.              *)
C12_WhereRenderedOnce ==
    Compiled =>
        /\ Count(sql.sql, "WHERE ") = (IF WhereText(arg) = <<>> THEN 0 ELSE 1)
        /\ Count(sql.sql, "WITH base AS (") = (IF NamedOf(arg) = <<>> THEN 0 ELSE 1)
        /\ StartsWith(OuterPart(sql.sql), <<"SELECT", Indent>>)
        /\ NamedOf(arg) # <<>> =>
              /\ StartsWith(CtePart(sql.sql), <<"WITH base AS (", "SELECT *, ">>)
              /\ Count(CtePart(sql.sql), " AS ") = Len(NamedOf(arg))
              /\ \A i \in 1..Len(NamedOf(arg)) :
                    Contains(CtePart(sql.sql),
                             <<" AS ">> \o q_ident(NamedOf(arg)[i].name))
              /\ EndsWith(CtePart(sql.sql),
                          <<" FROM ">> \o q_ident(arg.source)
                            \o (IF WhereText(arg) = <<>> THEN <<>>
                                ELSE <<" ">> \o WhereText(arg)) \o <<")\n">>)
              /\ Contains(OuterPart(sql.sql), <<Indent, "FROM ", "base">>)
              /\ Count(sql.sql, "FROM ") = 1
              /\ Count(OuterPart(sql.sql), "WHERE ") = 0
        /\ NamedOf(arg) = <<>> =>
              /\ CtePart(sql.sql) = <<>>
              /\ Contains(sql.sql, <<Indent, "FROM ">> \o q_ident(arg.source)
                                     \o (IF WhereText(arg) = <<>> THEN <<>>
                                         ELSE <<Indent>> \o WhereText(arg)))
              /\ Count(sql.sql, "FROM ") = 1
              /\ Count(sql.sql, "base") = 0

(* C12 witness: named expressions and a where clause, the WHERE in the CTE *)
C12_WhereInsideCte ==
    /\ Compiled
    /\ Len(NamedOf(arg)) = 2
    /\ "where" \in DOMAIN arg /\ Len(arg.where) = 2
    /\ Count(CtePart(sql.sql), "WHERE ") = 1
    /\ Count(OuterPart(sql.sql), "WHERE ") = 0

ClaimedAggs ==
    { <<"S", "U", "M">>, <<"C", "O", "U", "N", "T">>, <<"A", "V", "G">>,
      <<"M", "I", "N">>, <<"M", "A", "X">> }

AggsOf(p) == GetOr(p, "aggregations", <<>>)

AggFnClaimed(a) == StrUpper(a.fn) \in ClaimedAggs

AggEntryFine(p, a) ==
    AggFnClaimed(a) /\ WellFormed(a.expr) /\ Refs(a.expr) \subseteq OuterNames(p)

(* The where clauses and every named expression compile *)
LayerReached(p) ==
    WhereFine(p) /\ \A i \in 1..Len(NamedOf(p)) : NamedFine(NamedOf(p), i)

(* C13 as claimed: when the aggregation layer is reached, an aggregation  *)
(* entry whose fn is not one of SUM, COUNT, AVG, MIN, MAX makes the       *)
(* process fail with 'Unsupported aggregation'.                           *)
C13_AlwaysUnsupportedAggregation ==
    (call = "build_duckdb_sql_from_process" /\ LayerReached(arg)
        /\ \E a \in SeqRange(AggsOf(arg)) : ~AggFnClaimed(a)) =>
        (~sql.ok /\ sql.err = "Unsupported aggregation")

(* C13 amended: a process compiles only if the fn of every aggregation    *)
(* entry is one of SUM, COUNT, AVG, MIN, MAX; an entry with any other fn, *)
(* scalar functions included, makes the process fail and return no SQL,   *)
(* with 'Unsupported aggregation' when the where clauses, the named       *)
(* expressions and every aggregation entry before it compile; a scalar    *)
(* function nested in the expr of an aggregation is compiled inside it.   *)
C13_AggregateWhitelist ==
    call = "build_duckdb_sql_from_process" =>
        /\ sql.ok => \A a \in SeqRange(AggsOf(arg)) : AggFnClaimed(a)
        /\ (\E a \in SeqRange(AggsOf(arg)) : ~AggFnClaimed(a)) =>
              (~sql.ok /\ sql.sql = <<>>)
        /\ \A i \in 1..Len(AggsOf(arg)) :
              ( /\ LayerReached(arg)
                /\ \A j \in 1..(i - 1) : AggEntryFine(arg, AggsOf(arg)[j])
                /\ ~AggFnClaimed(AggsOf(arg)[i]) )
              => sql.err = "Unsupported aggregation"
        /\ \A i \in 1..Len(AggsOf(arg)) :
              ( /\ sql.ok
                /\ Kind(AggsOf(arg)[i].expr) = "fn" )
              => Contains(sql.sql, StrUpper(AggsOf(arg)[i].fn) \o <<"(">>
                                     \o StrUpper(AggsOf(arg)[i].expr.fn) \o <<"(">>)

(* C13 witness: after an accepted SUM entry a COALESCE entry is refused *)
C13_ScalarRefusedAsAggregate ==
    /\ call = "build_duckdb_sql_from_process"
    /\ LayerReached(arg)
    /\ Len(AggsOf(arg)) = 2
    /\ AggEntryFine(arg, AggsOf(arg)[1])
    /\ AggsOf(arg)[2].fn = W_COALESCE
    /\ ~sql.ok /\ sql.err = "Unsupported aggregation" /\ sql.sql = <<>>

LimitOf(p) == GetOr(p, "limit", Null)

(* C14: the returned SQL holds a LIMIT clause exactly when the limit of   *)
(* the process is present and a non-negative integer, and the clause is   *)
(* then LIMIT followed by that integer, closing the statement.            *)
C14_LimitOnlyNonNegative ==
    Compiled =>
        /\ Count(sql.sql, "LIMIT ") > 0
              <=> (LimitOf(arg).t = "num" /\ LimitOf(arg).n >= 0)
        /\ Count(sql.sql, "LIMIT ") > 0
              => EndsWith(sql.sql, <<"LIMIT ">> \o IntToStr(LimitOf(arg).n))

============================================================================
